---- MODULE Spec2Model ----
(***************************************************************************)
(* Model of expat/fuzz/xml_lpm_fuzzer.cpp: the structured fuzzing driver   *)
(* of the expat XML parser.  The driver (DEFINE_TEXT_PROTO_FUZZER), the    *)
(* feed wrapper Parse, the allocator hooks and the two callbacks that      *)
(* carry behaviour (CommentHandler, ExternalEntityRefHandler) are          *)
(* translated from the source.  The parser library itself (XML_Parse,      *)
(* XML_ResumeParser, XML_StopParser, XML_ParserReset, XML_ParserFree, the  *)
(* two constructors) is not part of the file; it is modelled as an         *)
(* abstract tokenizer: a document is a sequence of tokens, and the library *)
(* consumes one token per step, calling the allocator hooks and the        *)
(* registered callbacks as it goes.                                        *)
(***************************************************************************)
EXTENDS Integers, Sequences, FiniteSets, TLC

\* ------------------------------------------------------------------ bounds
\* Longest action list of a test case (testcase.actions_size()).
MaxActions == 2
\* Longest document (in tokens) carried by one action.
MaxDoc == 2
\* Deepest stack of parsers: 1 is the top-level parser alone, each level
\* above it is a nested external-entity parser.
MaxDepth == 2
\* Longest fail-list of a test case (testcase.fail_allocations_size()).
MaxFails == 2
\* Largest allocation index a fail-list names (the smallest is -1).
MaxIdx == 1

\* ------------------------------------------------------------ input values
Tokens == {"text", "comment", "extref", "bad"}

RECURSIVE SeqsUpTo(_, _)
SeqsUpTo(S, n) ==
    IF n = 0 THEN {<< >>}
    ELSE LET shorter == SeqsUpTo(S, n - 1)
         IN  shorter \cup {Append(s, x) : s \in shorter, x \in S}

Docs == SeqsUpTo(Tokens, MaxDoc)

FailIdx == (0 - 1)..MaxIdx

FailLists == SeqsUpTo(FailIdx, MaxFails)

\* The values of xml_lpm_fuzzer::Encoding test cases are drawn from: a named
\* encoding, NONE, and a value outside the enumeration.
Encodings == {"UTF16", "NONE", "UNRECOGNISED"}

NoDoc == << >>

NoAction == [kind |-> "None", data |-> NoDoc, idx |-> 0 - 1]

\* A char pointer: null, or the bytes it points to.
Nullptr == [null |-> TRUE, bytes |-> NoDoc]

PointerTo(doc) == [null |-> FALSE, bytes |-> doc]

Range(s) == {s[k] : k \in 1..Len(s)}

\* ------------------------------------------------------------- SetEncoding
SetEncoding(e) ==
    CASE e = "UTF8" -> "UTF-8"
      [] e = "UTF16" -> "UTF-16"
      [] e = "ISO88591" -> "ISO-8859-1"
      [] e = "ASCII" -> "US-ASCII"
      [] e = "NONE" -> "NULL"
      [] OTHER -> "UNKNOWN"

\* --------------------------------------------------------- allocator hooks
\* The loop of MallocHook / ReallocHook over fail_allocations.
IndexListed(count, fails) == \E k \in 1..Len(fails) : fails[k] = count

\* A hook that counts every call, failed or not (a plausible slip).
MallocHookCountsFailures(count, fails) ==
    IF IndexListed(count, fails)
    THEN [ret |-> "NULL", count |-> count + 1]
    ELSE [ret |-> "ptr", count |-> count + 1]

\* MallocHook(size): the returned pointer and the new allocation_count.
MallocHook(count, fails) ==
    IF IndexListed(count, fails)
    THEN [ret |-> "NULL", count |-> count]
    ELSE [ret |-> "ptr", count |-> count + 1]

\* ReallocHook(ptr, size).
ReallocHook(count, fails) ==
    IF IndexListed(count, fails)
    THEN [ret |-> "NULL", count |-> count]
    ELSE [ret |-> "ptr", count |-> count + 1]

\* FreeHook(ptr): the new allocation_count.
FreeHook(count) == count

\* ------------------------------------------------- the parser library (API)
\* An XML_Parser: life is "null" (the constructor returned NULL), "live" or
\* "freed"; reg says whether the callback set is registered; userData is the
\* stack position of the parser XML_SetUserData named (0 for NULL); st is
\* the library's parsing status; buf is the input not yet consumed.
NullParser ==
    [life |-> "null", reg |-> FALSE, userData |-> 0, enc |-> "NULL",
     st |-> "INITIALIZED", buf |-> NoDoc, final |-> FALSE]

\* XML_ParserCreate_MM(encoding, memsuite, sep), given what its allocation returned.
XML_ParserCreate_MM(ret, enc) ==
    IF ret = "NULL" THEN NullParser
    ELSE [life |-> "live", reg |-> FALSE, userData |-> 0, enc |-> enc,
          st |-> "INITIALIZED", buf |-> NoDoc, final |-> FALSE]

\* XML_ExternalEntityParserCreate(parent, context, encoding): the child
\* inherits the parent's handlers and user data.
XML_ExternalEntityParserCreate(parent, ret, enc) ==
    IF parent.life # "live" \/ ret = "NULL" THEN NullParser
    ELSE [life |-> "live", reg |-> parent.reg, userData |-> parent.userData,
          enc |-> enc, st |-> "INITIALIZED", buf |-> NoDoc, final |-> FALSE]

\* XML_ParserReset(parser, encoding): clears handlers, user data, buffers and
\* the parsing status of a live parser; a NULL parser is left alone.
XML_ParserReset(p, enc) ==
    IF p.life # "live" THEN p
    ELSE [p EXCEPT !.reg = FALSE, !.userData = 0, !.enc = enc,
                   !.st = "INITIALIZED", !.buf = NoDoc, !.final = FALSE]

\* XML_ParserFree(parser).
XML_ParserFree(p) == IF p.life = "live" THEN [p EXCEPT !.life = "freed"] ELSE p

\* XML_StopParser(parser, resumable).
XML_StopParser(p, resumable) ==
    IF p.life = "live" /\ p.st = "PARSING"
    THEN [p EXCEPT !.st = IF resumable THEN "SUSPENDED" ELSE "FINISHED"]
    ELSE IF p.life = "live" /\ p.st = "SUSPENDED" /\ ~resumable
    THEN [p EXCEPT !.st = "FINISHED"]
    ELSE p

\* Entry of XML_Parse(parser, s, len, isFinal): the parser and either "RUN"
\* (the library goes on to consume the input) or the status returned at once.
XML_ParseBegin(p, input, final) ==
    IF p.life # "live" \/ p.st \in {"SUSPENDED", "FINISHED"}
    THEN [parser |-> p, status |-> "ERROR"]
    ELSE [parser |-> [p EXCEPT !.st = "PARSING", !.buf = input, !.final = final],
          status |-> "RUN"]

\* Entry of XML_ResumeParser(parser).
XML_ResumeBegin(p) ==
    IF p.life # "live" \/ p.st # "SUSPENDED"
    THEN [parser |-> p, status |-> "ERROR"]
    ELSE [parser |-> [p EXCEPT !.st = "PARSING"], status |-> "RUN"]

\* InitializeParser(parser): XML_SetUserData(parser, parser) and the
\* XML_Set...Handler calls; each is a no-op on a NULL parser.
InitializeParser(p, self) ==
    IF p.life = "live" THEN [p EXCEPT !.reg = TRUE, !.userData = self] ELSE p

\* The loop condition of Parse, mutated to give up after the first call.
ResumeNeededNever(status) == FALSE

\* Parse: while (status == XML_STATUS_SUSPENDED).
ResumeNeeded(status) == status = "SUSPENDED"

\* ------------------------------------------------------------------- state
VARIABLES
    \* process-wide state of the harness
    g_encoding, external_entity, external_entity_size,
    allocation_count, fail_allocations,
    \* DEFINE_TEXT_PROTO_FUZZER: position, loop index, actions_size(), the
    \* action being replayed
    pc, i, nActions, action,
    \* the parsers in use, top-level first, and the call of Parse on each
    parsers, calls,
    \* observations
    trace,          \* API calls the driver made on its parser in this action
    lastHook,       \* the latest allocator hook call and what it returned
    succeeded,      \* real allocations performed in this test case
    failedHere,     \* forced failures since the latest real allocation
    nCreateCalls,   \* calls of XML_ParserCreate_MM in this test case
    nCreated,       \* top-level parsers constructed in this test case
    nFreed,         \* top-level parsers destroyed in this test case
    misuse,         \* an API call was made on a destroyed top-level parser
    lastHandler,    \* the latest ExternalEntityRefHandler invocation
    recentExt,      \* bytes of the latest ExternalEntity action of this test case
    tcEncoding      \* testcase.encoding() of this test case

vars == <<g_encoding, external_entity, external_entity_size, allocation_count,
          fail_allocations, pc, i, nActions, action, parsers, calls, trace,
          lastHook, succeeded, failedHere, nCreateCalls, nCreated, nFreed,
          misuse, lastHandler, recentExt, tcEncoding>>

hookVars == <<allocation_count, lastHook, succeeded, failedHere>>

topStats == <<nCreateCalls, nCreated, nFreed, misuse>>

NoHookCall == [fn |-> "none", before |-> 0, ret |-> "void", tick |-> 0]

\* pending: a buffer was pending; built / left: the life of ext_parser after
\* its construction and when the handler returned; fed, final, nested: the
\* arguments and the result of the handler's call of Parse; rc: its result.
NoHandler ==
    [seen |-> FALSE, pending |-> FALSE, built |-> "none", left |-> "none",
     fed |-> NoDoc, final |-> FALSE, nested |-> "NONE", rc |-> "NONE"]

\* A call of Parse: where it stands, the latest status the library returned
\* to it, all the statuses returned to it, its arguments, and the number of
\* times it called XML_ResumeParser.
NoCall ==
    [ppc |-> "none", status |-> "NONE", hist |-> << >>, input |-> NoDoc,
     final |-> FALSE, resumes |-> 0]

Init ==
    /\ g_encoding = "NULL"
    /\ external_entity = Nullptr
    /\ external_entity_size = 0
    /\ allocation_count = 0
    /\ fail_allocations = << >>
    /\ pc = "idle"
    /\ i = 0
    /\ nActions = 0
    /\ action = NoAction
    /\ parsers = << >>
    /\ calls = << >>
    /\ trace = << >>
    /\ lastHook = NoHookCall
    /\ succeeded = 0
    /\ failedHere = 0
    /\ nCreateCalls = 0
    /\ nCreated = 0
    /\ nFreed = 0
    /\ misuse = FALSE
    /\ lastHandler = NoHandler
    /\ recentExt = Nullptr
    /\ tcEncoding = "NONE"

\* ----------------------------------------------- allocator hook invocations
\* One call of MallocHook ("malloc") or ReallocHook ("realloc") by the library.
AllocResult(fn) ==
    IF fn = "malloc" THEN MallocHook(allocation_count, fail_allocations)
    ELSE ReallocHook(allocation_count, fail_allocations)

CallAlloc(fn) ==
    LET r == AllocResult(fn)
    IN  /\ allocation_count' = r.count
        /\ lastHook' = [fn |-> fn, before |-> succeeded, ret |-> r.ret,
                        tick |-> 1 - lastHook.tick]
        /\ succeeded' = IF r.ret = "NULL" THEN succeeded ELSE succeeded + 1
        /\ failedHere' = IF r.ret = "NULL" THEN failedHere + 1 ELSE 0

CallFree ==
    /\ allocation_count' = FreeHook(allocation_count)
    /\ lastHook' = [fn |-> "free", before |-> succeeded, ret |-> "void",
                    tick |-> 1 - lastHook.tick]
    /\ UNCHANGED <<succeeded, failedHere>>

\* --------------------------------------------- DEFINE_TEXT_PROTO_FUZZER
Top == Len(parsers)

Returned(c, s) == [c EXCEPT !.status = s, !.hist = Append(@, s), !.ppc = "chk"]

NewCall(input, final) ==
    [ppc |-> "call", status |-> "NONE", hist |-> << >>, input |-> input,
     final |-> final, resumes |-> 0]

ClearLocals ==
    /\ i' = 0
    /\ action' = NoAction
    /\ parsers' = << >>
    /\ calls' = << >>
    /\ trace' = << >>
    /\ nCreateCalls' = 0
    /\ nCreated' = 0
    /\ nFreed' = 0
    /\ misuse' = FALSE
    /\ lastHandler' = NoHandler
    /\ lastHook' = NoHookCall
    /\ succeeded' = 0
    /\ failedHere' = 0
    /\ recentExt' = Nullptr

\* A test case without actions: external_entity = nullptr; return.
EmptyTestcase ==
    /\ pc = "idle"
    /\ external_entity' = Nullptr
    /\ nActions' = 0
    /\ ClearLocals
    /\ UNCHANGED <<g_encoding, external_entity_size, fail_allocations, pc,
                   allocation_count, tcEncoding>>

\* A test case with n actions passes the early return.
BeginTestcase(n) ==
    /\ pc = "idle"
    /\ external_entity' = Nullptr
    /\ nActions' = n
    /\ ClearLocals
    /\ pc' = "setup"
    /\ UNCHANGED <<g_encoding, external_entity_size, fail_allocations,
                   allocation_count, tcEncoding>>

\* allocation_count = 0; fail_allocations = testcase.fail_allocations();
\* SetEncoding(testcase.encoding()).
Setup(fl, e) ==
    /\ pc = "setup"
    /\ allocation_count' = 0
    /\ fail_allocations' = fl
    /\ g_encoding' = SetEncoding(e)
    /\ tcEncoding' = e
    /\ pc' = "create"
    /\ UNCHANGED <<recentExt, external_entity, external_entity_size, i, nActions,
                   action,
                   parsers, calls, trace, topStats, lastHandler, lastHook,
                   succeeded, failedHere>>

\* parser = XML_ParserCreate_MM(g_encoding, &memory_handling_suite, "|").
CreateParser ==
    /\ pc = "create"
    /\ CallAlloc("malloc")
    /\ LET p == XML_ParserCreate_MM(AllocResult("malloc").ret, g_encoding)
       IN  /\ parsers' = <<p>>
           /\ nCreated' = nCreated + (IF p.life = "live" THEN 1 ELSE 0)
    /\ calls' = <<NoCall>>
    /\ nCreateCalls' = nCreateCalls + 1
    /\ pc' = "init"
    /\ UNCHANGED <<recentExt, tcEncoding, g_encoding, external_entity,
                   external_entity_size,
                   fail_allocations, i, nActions, action, trace, nFreed, misuse,
                   lastHandler>>

Touch == misuse' = (misuse \/ parsers[1].life = "freed")

\* InitializeParser(parser), right after construction.
InitTop ==
    /\ pc = "init"
    /\ parsers' = [parsers EXCEPT ![1] = InitializeParser(@, 1)]
    /\ Touch
    /\ pc' = "loop"
    /\ UNCHANGED <<recentExt, tcEncoding, g_encoding, external_entity,
                   external_entity_size,
                   fail_allocations, hookVars, i, nActions, action, calls, trace,
                   nCreateCalls, nCreated, nFreed, lastHandler>>

\* XML_ParserReset(parser, g_encoding) by the driver, with the release of the
\* parser's buffers through FreeHook.
ResetTop ==
    /\ parsers' = [parsers EXCEPT ![1] = XML_ParserReset(@, g_encoding)]
    /\ trace' = Append(trace, "XML_ParserReset")
    /\ Touch
    /\ IF parsers[1].life = "live" THEN CallFree ELSE UNCHANGED hookVars

\* case kChunk: Parse(parser, chunk, size, 0) is called.
DoChunk(doc) ==
    /\ pc = "loop"
    /\ i < nActions
    /\ action' = [kind |-> "Chunk", data |-> doc, idx |-> i]
    /\ calls' = [calls EXCEPT ![1] = NewCall(doc, FALSE)]
    /\ trace' = << >>
    /\ lastHandler' = NoHandler
    /\ pc' = "parse"
    /\ UNCHANGED <<recentExt, tcEncoding, g_encoding, external_entity,
                   external_entity_size,
                   fail_allocations, hookVars, i, nActions, parsers, topStats>>

\* The variant of the kChunk case that re-registers the callbacks.
ChunkDoneReinit ==
    /\ pc = "parse"
    /\ action.kind = "Chunk"
    /\ Top = 1
    /\ calls[1].ppc = "ret"
    /\ IF calls[1].status = "ERROR"
       THEN /\ parsers' = [parsers EXCEPT
                  ![1] = InitializeParser(XML_ParserReset(@, g_encoding), 1)]
            /\ trace' = trace \o <<"XML_ParserReset", "InitializeParser">>
            /\ Touch
            /\ IF parsers[1].life = "live" THEN CallFree ELSE UNCHANGED hookVars
       ELSE UNCHANGED <<parsers, trace, misuse, hookVars>>
    /\ i' = i + 1
    /\ pc' = "loop"
    /\ UNCHANGED <<recentExt, tcEncoding, g_encoding, external_entity,
                   external_entity_size,
                   fail_allocations, nActions, action, calls, nCreateCalls,
                   nCreated, nFreed, lastHandler>>

\* case kChunk, after Parse returned: if (XML_STATUS_ERROR == ...)
\* XML_ParserReset(parser, g_encoding); break.
ChunkDone ==
    /\ pc = "parse"
    /\ action.kind = "Chunk"
    /\ Top = 1
    /\ calls[1].ppc = "ret"
    /\ IF calls[1].status = "ERROR"
       THEN ResetTop
       ELSE UNCHANGED <<parsers, trace, misuse, hookVars>>
    /\ i' = i + 1
    /\ pc' = "loop"
    /\ UNCHANGED <<recentExt, tcEncoding, g_encoding, external_entity,
                   external_entity_size,
                   fail_allocations, nActions, action, calls, nCreateCalls,
                   nCreated, nFreed, lastHandler>>

\* case kLastChunk: Parse(parser, last_chunk, size, 1) is called.
DoLastChunk(doc) ==
    /\ pc = "loop"
    /\ i < nActions
    /\ action' = [kind |-> "LastChunk", data |-> doc, idx |-> i]
    /\ calls' = [calls EXCEPT ![1] = NewCall(doc, TRUE)]
    /\ trace' = << >>
    /\ lastHandler' = NoHandler
    /\ pc' = "parse"
    /\ UNCHANGED <<recentExt, tcEncoding, g_encoding, external_entity,
                   external_entity_size,
                   fail_allocations, hookVars, i, nActions, parsers, topStats>>

\* The variant of the kLastChunk case that resets only after an error.
LastChunkDoneOnError ==
    /\ pc = "parse"
    /\ action.kind = "LastChunk"
    /\ Top = 1
    /\ calls[1].ppc = "ret"
    /\ IF calls[1].status = "ERROR"
       THEN ResetTop
       ELSE UNCHANGED <<parsers, trace, misuse, hookVars>>
    /\ pc' = "reinit"
    /\ UNCHANGED <<recentExt, tcEncoding, g_encoding, external_entity,
                   external_entity_size,
                   fail_allocations, i, nActions, action, calls, nCreateCalls,
                   nCreated, nFreed, lastHandler>>

\* case kLastChunk, after Parse returned: XML_ParserReset(parser, g_encoding).
LastChunkDone ==
    /\ pc = "parse"
    /\ action.kind = "LastChunk"
    /\ Top = 1
    /\ calls[1].ppc = "ret"
    /\ ResetTop
    /\ pc' = "reinit"
    /\ UNCHANGED <<recentExt, tcEncoding, g_encoding, external_entity,
                   external_entity_size,
                   fail_allocations, i, nActions, action, calls, nCreateCalls,
                   nCreated, nFreed, lastHandler>>

\* case kReset: XML_ParserReset(parser, g_encoding).
DoReset ==
    /\ pc = "loop"
    /\ i < nActions
    /\ action' = [kind |-> "Reset", data |-> NoDoc, idx |-> i]
    /\ parsers' = [parsers EXCEPT ![1] = XML_ParserReset(@, g_encoding)]
    /\ trace' = <<"XML_ParserReset">>
    /\ Touch
    /\ IF parsers[1].life = "live" THEN CallFree ELSE UNCHANGED hookVars
    /\ lastHandler' = NoHandler
    /\ pc' = "reinit"
    /\ UNCHANGED <<recentExt, tcEncoding, g_encoding, external_entity,
                   external_entity_size,
                   fail_allocations, i, nActions, calls, nCreateCalls, nCreated,
                   nFreed>>

\* InitializeParser(parser); break -- the end of kLastChunk and of kReset.
Reinit ==
    /\ pc = "reinit"
    /\ parsers' = [parsers EXCEPT ![1] = InitializeParser(@, 1)]
    /\ trace' = Append(trace, "InitializeParser")
    /\ Touch
    /\ i' = i + 1
    /\ pc' = "loop"
    /\ UNCHANGED <<recentExt, tcEncoding, g_encoding, external_entity,
                   external_entity_size,
                   fail_allocations, hookVars, nActions, action, calls,
                   nCreateCalls, nCreated, nFreed, lastHandler>>

\* The variant of kExternalEntity that keeps the buffer first stored.
DoExternalEntityKeepFirst(doc) ==
    /\ pc = "loop"
    /\ i < nActions
    /\ action' = [kind |-> "ExternalEntity", data |-> doc, idx |-> i]
    /\ external_entity' = IF external_entity.null THEN PointerTo(doc)
                          ELSE external_entity
    /\ external_entity_size' = Len(doc)
    /\ recentExt' = PointerTo(doc)
    /\ trace' = << >>
    /\ lastHandler' = NoHandler
    /\ i' = i + 1
    /\ UNCHANGED <<tcEncoding, g_encoding, fail_allocations, hookVars, pc,
                   nActions,
                   parsers, calls, topStats>>

\* case kExternalEntity: external_entity = data(); external_entity_size = size().
DoExternalEntity(doc) ==
    /\ pc = "loop"
    /\ i < nActions
    /\ action' = [kind |-> "ExternalEntity", data |-> doc, idx |-> i]
    /\ external_entity' = PointerTo(doc)
    /\ external_entity_size' = Len(doc)
    /\ recentExt' = PointerTo(doc)
    /\ trace' = << >>
    /\ lastHandler' = NoHandler
    /\ i' = i + 1
    /\ UNCHANGED <<tcEncoding, g_encoding, fail_allocations, hookVars, pc,
                   nActions,
                   parsers, calls, topStats>>

\* default: an action with no variant set.
DoNotSet ==
    /\ pc = "loop"
    /\ i < nActions
    /\ action' = [kind |-> "NotSet", data |-> NoDoc, idx |-> i]
    /\ trace' = << >>
    /\ lastHandler' = NoHandler
    /\ i' = i + 1
    /\ UNCHANGED <<recentExt, tcEncoding, g_encoding, external_entity,
                   external_entity_size,
                   fail_allocations, hookVars, pc, nActions, parsers, calls,
                   topStats>>

\* The variant of the teardown that forgets XML_ParserFree.
FreeParserLeak ==
    /\ pc = "loop"
    /\ i = nActions
    /\ pc' = "idle"
    /\ i' = 0
    /\ action' = NoAction
    /\ calls' = << >>
    /\ trace' = << >>
    /\ lastHandler' = NoHandler
    /\ UNCHANGED <<recentExt, tcEncoding, g_encoding, external_entity,
                   external_entity_size,
                   fail_allocations, hookVars, nActions, parsers, topStats>>

\* XML_ParserFree(parser), after the loop; the function returns and its
\* locals are gone.
FreeParser ==
    /\ pc = "loop"
    /\ i = nActions
    /\ parsers' = [parsers EXCEPT ![1] = XML_ParserFree(@)]
    /\ nFreed' = nFreed + (IF parsers[1].life = "live" THEN 1 ELSE 0)
    /\ Touch
    /\ IF parsers[1].life = "live" THEN CallFree ELSE UNCHANGED hookVars
    /\ pc' = "idle"
    /\ i' = 0
    /\ action' = NoAction
    /\ calls' = << >>
    /\ trace' = << >>
    /\ lastHandler' = NoHandler
    /\ UNCHANGED <<recentExt, tcEncoding, g_encoding, external_entity,
                   external_entity_size,
                   fail_allocations, nActions, nCreateCalls, nCreated>>

\* -------------------------------------------------------------------- Parse
\* The driver (or, above the top-level parser, a handler) is inside Parse.
InParse == pc = "parse" /\ Top >= 1

DriverCall(name) == IF Top = 1 THEN Append(trace, name) ELSE trace

DriverTouch == IF Top = 1 THEN Touch ELSE UNCHANGED misuse

\* status = XML_Parse(parser, input, input_len, is_final).
ParseCall ==
    /\ InParse
    /\ calls[Top].ppc = "call"
    /\ LET c == calls[Top]
           r == XML_ParseBegin(parsers[Top], c.input, c.final)
       IN  /\ parsers' = [parsers EXCEPT ![Top] = r.parser]
           /\ calls' = [calls EXCEPT ![Top] =
                  IF r.status = "RUN" THEN [c EXCEPT !.ppc = "lib"]
                  ELSE Returned(c, r.status)]
           /\ trace' = DriverCall(IF c.final THEN "XML_Parse(final)"
                                  ELSE "XML_Parse(more)")
    /\ DriverTouch
    /\ UNCHANGED <<recentExt, tcEncoding, g_encoding, external_entity,
                   external_entity_size,
                   fail_allocations, hookVars, pc, i, nActions, action,
                   nCreateCalls, nCreated, nFreed, lastHandler>>

\* while (status == XML_STATUS_SUSPENDED) status = XML_ResumeParser(parser);
\* return status.
ParseCheck ==
    /\ InParse
    /\ calls[Top].ppc = "chk"
    /\ LET c == calls[Top]
           r == XML_ResumeBegin(parsers[Top])
       IN  IF ResumeNeeded(c.status)
           THEN /\ parsers' = [parsers EXCEPT ![Top] = r.parser]
                /\ calls' = [calls EXCEPT ![Top] =
                       IF r.status = "RUN"
                       THEN [c EXCEPT !.ppc = "lib", !.resumes = @ + 1]
                       ELSE [Returned(c, r.status) EXCEPT !.resumes = @ + 1]]
                /\ trace' = DriverCall("XML_ResumeParser")
                /\ DriverTouch
           ELSE /\ calls' = [calls EXCEPT ![Top].ppc = "ret"]
                /\ UNCHANGED <<parsers, trace, misuse>>
    /\ UNCHANGED <<recentExt, tcEncoding, g_encoding, external_entity,
                   external_entity_size,
                   fail_allocations, hookVars, pc, i, nActions, action,
                   nCreateCalls, nCreated, nFreed, lastHandler>>

\* ------------------------------------------ the library consuming its input
InLib == InParse /\ calls[Top].ppc = "lib"

\* Character data: the library may need memory for it (fn is "none",
\* "malloc" or "realloc"); a failed allocation ends the call with an error.
LibText(fn) ==
    /\ InLib
    /\ parsers[Top].buf # << >>
    /\ Head(parsers[Top].buf) = "text"
    /\ IF fn = "none" THEN UNCHANGED hookVars ELSE CallAlloc(fn)
    /\ IF fn # "none" /\ AllocResult(fn).ret = "NULL"
       THEN /\ calls' = [calls EXCEPT ![Top] = Returned(@, "ERROR")]
            /\ UNCHANGED parsers
       ELSE /\ parsers' = [parsers EXCEPT ![Top].buf = Tail(@)]
            /\ UNCHANGED calls
    /\ UNCHANGED <<recentExt, tcEncoding, g_encoding, external_entity,
                   external_entity_size,
                   fail_allocations, pc, i, nActions, action, trace, topStats,
                   lastHandler>>

\* CommentHandler(userData, data): XML_StopParser((XML_Parser)userData, XML_TRUE).
CommentHandler(ps, userData) ==
    IF userData = 0 THEN ps
    ELSE [ps EXCEPT ![userData] = XML_StopParser(@, TRUE)]

\* A comment: the library calls the comment handler if one is registered,
\* and returns SUSPENDED if the parser it is running was stopped.
LibComment ==
    /\ InLib
    /\ parsers[Top].buf # << >>
    /\ Head(parsers[Top].buf) = "comment"
    /\ LET after == IF parsers[Top].reg
                    THEN CommentHandler(parsers, parsers[Top].userData)
                    ELSE parsers
       IN  /\ parsers' = [after EXCEPT ![Top].buf = Tail(@)]
           /\ calls' = IF after[Top].st = "SUSPENDED"
                       THEN [calls EXCEPT ![Top] = Returned(@, "SUSPENDED")]
                       ELSE calls
    /\ UNCHANGED <<recentExt, tcEncoding, g_encoding, external_entity,
                   external_entity_size,
                   fail_allocations, hookVars, pc, i, nActions, action, trace,
                   topStats, lastHandler>>

\* Malformed input: XML_Parse / XML_ResumeParser returns XML_STATUS_ERROR.
LibBad ==
    /\ InLib
    /\ parsers[Top].buf # << >>
    /\ Head(parsers[Top].buf) = "bad"
    /\ calls' = [calls EXCEPT ![Top] = Returned(@, "ERROR")]
    /\ UNCHANGED <<recentExt, tcEncoding, g_encoding, external_entity,
                   external_entity_size,
                   fail_allocations, hookVars, pc, i, nActions, action, parsers,
                   trace, topStats, lastHandler>>

\* The input is consumed: XML_STATUS_OK; a final chunk finishes the parser.
LibEnd ==
    /\ InLib
    /\ parsers[Top].buf = << >>
    /\ parsers' = [parsers EXCEPT ![Top].st =
                       IF parsers[Top].final THEN "FINISHED" ELSE @]
    /\ calls' = [calls EXCEPT ![Top] = Returned(@, "OK")]
    /\ UNCHANGED <<recentExt, tcEncoding, g_encoding, external_entity,
                   external_entity_size,
                   fail_allocations, hookVars, pc, i, nActions, action, trace,
                   topStats, lastHandler>>

\* An external entity reference the library does not hand to the handler:
\* none is registered (the reference is skipped), or the entity is already
\* open on every level of the stack (a recursive reference, an error).
LibExtRef ==
    /\ InLib
    /\ parsers[Top].buf # << >>
    /\ Head(parsers[Top].buf) = "extref"
    /\ ~parsers[Top].reg \/ Top >= MaxDepth
    /\ IF ~parsers[Top].reg
       THEN /\ parsers' = [parsers EXCEPT ![Top].buf = Tail(@)]
            /\ UNCHANGED calls
       ELSE /\ calls' = [calls EXCEPT ![Top] = Returned(@, "ERROR")]
            /\ UNCHANGED parsers
    /\ UNCHANGED <<recentExt, tcEncoding, g_encoding, external_entity,
                   external_entity_size,
                   fail_allocations, hookVars, pc, i, nActions, action, trace,
                   topStats, lastHandler>>

\* ------------------------------------------------ ExternalEntityRefHandler
HandlerCalled ==
    /\ InLib
    /\ parsers[Top].buf # << >>
    /\ Head(parsers[Top].buf) = "extref"
    /\ parsers[Top].reg
    /\ Top < MaxDepth

\* rc = XML_STATUS_ERROR; no buffer is pending; return rc.  The library
\* ends its call with an error.
ExtRefNoBuffer ==
    /\ HandlerCalled
    /\ external_entity.null
    /\ calls' = [calls EXCEPT ![Top] = Returned(@, "ERROR")]
    /\ lastHandler' = [NoHandler EXCEPT !.seen = TRUE, !.rc = "ERROR"]
    /\ UNCHANGED <<recentExt, tcEncoding, g_encoding, external_entity,
                   external_entity_size,
                   fail_allocations, hookVars, pc, i, nActions, action, parsers,
                   trace, topStats>>

\* if (external_entity): ext_parser = XML_ExternalEntityParserCreate(parser,
\* context, g_encoding); Parse(ext_parser, external_entity,
\* external_entity_size, 1) is called.
ExtRefEnter ==
    /\ HandlerCalled
    /\ ~external_entity.null
    /\ CallAlloc("malloc")
    /\ parsers' = Append(parsers,
           XML_ExternalEntityParserCreate(parsers[Top],
               AllocResult("malloc").ret, g_encoding))
    /\ calls' = Append([calls EXCEPT ![Top].ppc = "handler"],
           NewCall(SubSeq(external_entity.bytes, 1, external_entity_size), TRUE))
    /\ UNCHANGED <<recentExt, tcEncoding, g_encoding, external_entity,
                   external_entity_size,
                   fail_allocations, pc, i, nActions, action, trace, topStats,
                   lastHandler>>

\* The library, when the handler has returned rc to it.
AfterHandler(p, c, rc) ==
    IF rc = "ERROR" THEN [parser |-> p, call |-> Returned(c, "ERROR")]
    ELSE IF p.st = "SUSPENDED"
    THEN [parser |-> [p EXCEPT !.buf = Tail(@)], call |-> Returned(c, "SUSPENDED")]
    ELSE [parser |-> [p EXCEPT !.buf = Tail(@)], call |-> [c EXCEPT !.ppc = "lib"]]

\* The variant of the handler that forgets XML_ParserFree(ext_parser).
ExtRefReturnLeak ==
    /\ InParse
    /\ Top >= 2
    /\ calls[Top].ppc = "ret"
    /\ LET rc == calls[Top].status
           r == AfterHandler(parsers[Top - 1], calls[Top - 1], rc)
       IN  /\ parsers' = [SubSeq(parsers, 1, Top - 1) EXCEPT ![Top - 1] = r.parser]
           /\ calls' = [SubSeq(calls, 1, Top - 1) EXCEPT ![Top - 1] = r.call]
           /\ lastHandler' =
                  [seen |-> TRUE, pending |-> TRUE,
                   built |-> parsers[Top].life, left |-> parsers[Top].life,
                   fed |-> calls[Top].input, final |-> calls[Top].final,
                   nested |-> calls[Top].status, rc |-> rc]
    /\ UNCHANGED <<recentExt, tcEncoding, g_encoding, external_entity,
                   external_entity_size,
                   fail_allocations, hookVars, pc, i, nActions, action, trace,
                   topStats>>

\* rc = (what Parse returned); XML_ParserFree(ext_parser); return rc.
ExtRefReturn ==
    /\ InParse
    /\ Top >= 2
    /\ calls[Top].ppc = "ret"
    /\ IF parsers[Top].life = "live" THEN CallFree ELSE UNCHANGED hookVars
    /\ LET rc == calls[Top].status
           r == AfterHandler(parsers[Top - 1], calls[Top - 1], rc)
       IN  /\ parsers' = [SubSeq(parsers, 1, Top - 1) EXCEPT ![Top - 1] = r.parser]
           /\ calls' = [SubSeq(calls, 1, Top - 1) EXCEPT ![Top - 1] = r.call]
           /\ lastHandler' =
                  [seen |-> TRUE, pending |-> TRUE,
                   built |-> parsers[Top].life,
                   left |-> XML_ParserFree(parsers[Top]).life,
                   fed |-> calls[Top].input, final |-> calls[Top].final,
                   nested |-> calls[Top].status, rc |-> rc]
    /\ UNCHANGED <<recentExt, tcEncoding, g_encoding, external_entity,
                   external_entity_size,
                   fail_allocations, pc, i, nActions, action, trace, topStats>>

\* ---------------------------------------------------------- specification
Next ==
    \/ EmptyTestcase
    \/ \E n \in 1..MaxActions : BeginTestcase(n)
    \/ \E fl \in FailLists, e \in Encodings : Setup(fl, e)
    \/ CreateParser
    \/ InitTop
    \/ \E doc \in Docs : DoChunk(doc)
    \/ ChunkDone
    \/ \E doc \in Docs : DoLastChunk(doc)
    \/ LastChunkDone
    \/ DoReset
    \/ Reinit
    \/ \E doc \in Docs : DoExternalEntity(doc)
    \/ DoNotSet
    \/ FreeParser
    \/ ParseCall
    \/ ParseCheck
    \/ \E fn \in {"none", "malloc", "realloc"} : LibText(fn)
    \/ LibComment
    \/ LibBad
    \/ LibEnd
    \/ LibExtRef
    \/ ExtRefNoBuffer
    \/ ExtRefEnter
    \/ ExtRefReturn

Spec == Init /\ [][Next]_vars

\* The same program on fewer test-case headers (one encoding, fail-lists of at
\* most one index), with the fairness of a sequential program: a test case
\* that has started keeps executing.
LiveFailLists == SeqsUpTo(FailIdx, 1)

Step ==
    \/ \E fl \in LiveFailLists : Setup(fl, "NONE")
    \/ CreateParser
    \/ InitTop
    \/ \E doc \in Docs : DoChunk(doc)
    \/ ChunkDone
    \/ \E doc \in Docs : DoLastChunk(doc)
    \/ LastChunkDone
    \/ DoReset
    \/ Reinit
    \/ \E doc \in Docs : DoExternalEntity(doc)
    \/ DoNotSet
    \/ FreeParser
    \/ ParseCall
    \/ ParseCheck
    \/ \E fn \in {"none", "malloc", "realloc"} : LibText(fn)
    \/ LibComment
    \/ LibBad
    \/ LibEnd
    \/ LibExtRef
    \/ ExtRefNoBuffer
    \/ ExtRefEnter
    \/ ExtRefReturn

LiveNext ==
    \/ EmptyTestcase
    \/ \E n \in 1..MaxActions : BeginTestcase(n)
    \/ Step

LiveSpec == Init /\ [][LiveNext]_vars /\ WF_vars(Step)

\* ================================================================== claims
InTestcase == pc \notin {"idle", "setup"}

IsAlloc(h) == h.fn \in {"malloc", "realloc"}

Count(s, x) == Cardinality({k \in 1..Len(s) : s[k] = x})

Repeat(x, n) == [k \in 1..n |-> x]

\* The API calls one feed through Parse makes: XML_Parse, then one
\* XML_ResumeParser for every status but the last.
FeedTrace(first, c) ==
    <<first>> \o Repeat("XML_ResumeParser", Len(c.hist) - 1)

\* ---------------------------------------------------------------------- C1
\* C1 (as stated): of the allocation calls of a test case, exactly the call
\* made when N allocations have succeeded, N in the fail-list, returns NULL;
\* every other call -- the calls after it too -- performs the allocation.
C1_OnlyTheListedCallFails ==
    (InTestcase /\ IsAlloc(lastHook)) =>
        (lastHook.ret = "NULL" <=>
            (IndexListed(lastHook.before, fail_allocations) /\ failedHere = 1))

\* ---------------------------------------------------------------------- C10
C10_State ==
    /\ pc = "create" => allocation_count = 0
    /\ InTestcase =>
        /\ allocation_count = succeeded
        /\ \A k \in 1..Len(fail_allocations) :
               fail_allocations[k] >= 0 => allocation_count <= fail_allocations[k]
        /\ IsAlloc(lastHook) =>
               (lastHook.ret = "NULL" <=>
                    IndexListed(lastHook.before, fail_allocations))

C10_Step ==
    InTestcase =>
        /\ allocation_count' >= allocation_count
        /\ IF lastHook' # lastHook
           THEN /\ lastHook'.fn = "free" => allocation_count' = allocation_count
                /\ IsAlloc(lastHook') =>
                      allocation_count' = allocation_count
                          + (IF lastHook'.ret = "NULL" THEN 0 ELSE 1)
                /\ (IsAlloc(lastHook')
                        /\ IndexListed(allocation_count, fail_allocations)) =>
                      (lastHook'.ret = "NULL"
                          /\ allocation_count' = allocation_count)
           ELSE allocation_count' = allocation_count

\* C10: in a test case the allocation counter starts at zero, never
\* decreases, grows by one on each allocation call that is not forced to fail
\* and by nothing on a forced failure or a FreeHook call, never exceeds a
\* non-negative index of the fail-list, and once it equals an index of the
\* fail-list it stays there and every later allocation call fails.
C10_CounterSticksAtFailIndex == []C10_State /\ [][C10_Step]_vars

\* The counter is stuck on a listed index and a second call has failed there.
C10_Witness ==
    /\ InTestcase
    /\ IsAlloc(lastHook)
    /\ lastHook.ret = "NULL"
    /\ failedHere = 2
    /\ allocation_count = 1

\* ---------------------------------------------------------------------- C2
Suspensions(c) == Count(c.hist, "SUSPENDED")

C2_State ==
    \A d \in 1..Len(calls) :
        LET c == calls[d]
        IN  /\ c.resumes = Suspensions(c)
                  - (IF c.ppc = "chk" /\ c.status = "SUSPENDED" THEN 1 ELSE 0)
            /\ c.ppc = "ret" =>
                  /\ c.status \in {"OK", "ERROR"}
                  /\ c.hist # << >>
                  /\ c.status = c.hist[Len(c.hist)]
                  /\ \A k \in 1..(Len(c.hist) - 1) : c.hist[k] = "SUSPENDED"

C2_Returns ==
    \A d \in 1..MaxDepth :
        (Len(calls) >= d /\ calls[d].ppc = "call")
            ~> (Len(calls) >= d /\ calls[d].ppc = "ret")

\* C2: Parse never returns SUSPENDED; it answers every SUSPENDED the library
\* reports with one XML_ResumeParser on the same parser, returns the first
\* status that is not SUSPENDED, and every call of Parse (by the driver and
\* by the external-entity handler) returns.
C2_ParseDrivesSuspensionToTheEnd == []C2_State /\ C2_Returns

\* A feed that was suspended twice and resumed twice has returned OK.
C2_Witness ==
    /\ pc = "parse"
    /\ Top = 1
    /\ calls[1].ppc = "ret"
    /\ calls[1].hist = <<"SUSPENDED", "SUSPENDED", "OK">>
    /\ calls[1].resumes = 2

C4_EveryResetReinitialised ==
    /\ (pc = "loop" /\ parsers[1].life = "live"
            /\ "XML_ParserReset" \in Range(trace)) =>
           trace[Len(trace)] = "InitializeParser"
    /\ (pc = "parse" /\ Top = 1 /\ calls[1].ppc = "call"
            /\ parsers[1].life = "live") => parsers[1].reg

\* ---------------------------------------------------------------------- C5
WellFormed(doc) == Range(doc) \subseteq {"text", "comment"}

\* C5 (as stated, for the feeds where nothing else interferes: a live
\* parser, a document of text and comments, no allocation failure): a feed
\* of a document that contains a comment is suspended at least once before
\* it ends with OK or ERROR, and no action starts on a suspended parser.
C5_CommentSuspendsTheFeed ==
    /\ (pc = "parse" /\ Top = 1 /\ calls[1].ppc = "ret"
            /\ parsers[1].life = "live" /\ WellFormed(action.data)
            /\ "comment" \in Range(action.data) /\ failedHere = 0) =>
           /\ "SUSPENDED" \in Range(calls[1].hist)
           /\ calls[1].status \in {"OK", "ERROR"}
    /\ (pc = "loop" /\ parsers[1].life = "live") => parsers[1].st # "SUSPENDED"

\* ---------------------------------------------------------------------- C6
\* C6: a Chunk action feeds its bytes once, as a non-final chunk, through
\* Parse; exactly when the feed ends with ERROR the parser is then reset with
\* the test case's encoding, and its callbacks are not registered again; when
\* it ends with OK the parser is neither reset nor initialised; in both cases
\* the loop goes on to the next action.
C6_ChunkResetsOnErrorOnly ==
    (pc = "loop" /\ action.kind = "Chunk") =>
        LET c == calls[1]
            p == parsers[1]
        IN  /\ c.ppc = "ret"
            /\ c.input = action.data
            /\ ~c.final
            /\ c.status \in {"OK", "ERROR"}
            /\ i = action.idx + 1
            /\ trace = FeedTrace("XML_Parse(more)", c)
                   \o (IF c.status = "ERROR" THEN <<"XML_ParserReset">>
                       ELSE << >>)
            /\ (c.status = "ERROR" /\ p.life = "live") =>
                   /\ ~p.reg
                   /\ p.userData = 0
                   /\ p.st = "INITIALIZED"
                   /\ p.enc = SetEncoding(tcEncoding)
            /\ c.status = "OK" => (p.life = "live" /\ p.st = "PARSING")

\* A Chunk ended with ERROR on a live parser, which now has no callbacks.
C6_Witness ==
    /\ pc = "loop"
    /\ action.kind = "Chunk"
    /\ calls[1].status = "ERROR"
    /\ parsers[1].life = "live"
    /\ ~parsers[1].reg
    /\ "XML_ResumeParser" \in Range(trace)

\* ---------------------------------------------------------------------- C7
Reinitialised(p) ==
    p.life = "live" =>
        /\ p.reg
        /\ p.userData = 1
        /\ p.st = "INITIALIZED"
        /\ p.buf = << >>
        /\ p.enc = SetEncoding(tcEncoding)

\* C7: after a LastChunk action and after a Reset action the parser has been
\* reset and then initialised again, whatever the feed returned; LastChunk
\* makes exactly one feed, a final one, before the reset, and Reset makes
\* none.
C7_LastChunkAndResetReinitialise ==
    /\ (pc = "loop" /\ action.kind = "LastChunk") =>
           /\ calls[1].ppc = "ret"
           /\ calls[1].input = action.data
           /\ calls[1].final
           /\ calls[1].status \in {"OK", "ERROR"}
           /\ trace = FeedTrace("XML_Parse(final)", calls[1])
                  \o <<"XML_ParserReset", "InitializeParser">>
           /\ Reinitialised(parsers[1])
           /\ i = action.idx + 1
    /\ (pc = "loop" /\ action.kind = "Reset") =>
           /\ trace = <<"XML_ParserReset", "InitializeParser">>
           /\ Reinitialised(parsers[1])
           /\ i = action.idx + 1

\* A LastChunk whose feed returned OK has left a parser initialised again.
C7_Witness ==
    /\ pc = "loop"
    /\ action.kind = "LastChunk"
    /\ calls[1].status = "OK"
    /\ parsers[1].life = "live"
    /\ parsers[1].reg
    /\ parsers[1].st = "INITIALIZED"

\* ---------------------------------------------------------------------- C8
\* What the handler leaves alone in the parsers below its own: they are
\* not fed (same input), not reset (same registration, user data, encoding)
\* and not freed (same life); the driver sees no API call on its parser.
OuterUntouched ==
    Top >= 2 \/ Len(parsers') >= 2 =>
        /\ trace' = trace
        /\ nFreed' = nFreed
        /\ \A k \in 1..(Len(parsers') - 1) :
               k < Top =>
                  /\ parsers'[k].life = parsers[k].life
                  /\ parsers'[k].reg = parsers[k].reg
                  /\ parsers'[k].userData = parsers[k].userData
                  /\ parsers'[k].enc = parsers[k].enc
                  /\ parsers'[k].buf = parsers[k].buf
                  /\ parsers'[k].final = parsers[k].final
        /\ Len(parsers') < Top =>
               /\ parsers'[Top - 1].life = parsers[Top - 1].life
               /\ parsers'[Top - 1].reg = parsers[Top - 1].reg
               /\ parsers'[Top - 1].enc = parsers[Top - 1].enc
               /\ parsers'[Top - 1].final = parsers[Top - 1].final

HandlerWithoutBuffer ==
    (lastHandler.seen /\ ~lastHandler.pending) =>
        /\ lastHandler.rc = "ERROR"
        /\ lastHandler.built = "none"

\* C8 (as stated): without a pending buffer the handler returns the failure
\* status and constructs nothing; with one it constructs a nested parser,
\* feeds it the buffer as one final chunk through Parse, frees it once and
\* returns the status of that feed, OK or ERROR.
C8_NestedParserAlwaysBuilt ==
    /\ HandlerWithoutBuffer
    /\ (lastHandler.seen /\ lastHandler.pending) =>
           /\ lastHandler.built = "live"
           /\ lastHandler.left = "freed"
           /\ lastHandler.fed = external_entity.bytes
           /\ lastHandler.final
           /\ lastHandler.rc = lastHandler.nested
           /\ lastHandler.rc \in {"OK", "ERROR"}

C8_State ==
    /\ HandlerWithoutBuffer
    /\ (lastHandler.seen /\ lastHandler.pending) =>
           /\ lastHandler.built \in {"live", "null"}
           /\ lastHandler.built = "live" => lastHandler.left = "freed"
           /\ lastHandler.built = "null" =>
                  /\ lastHandler.left = "null"
                  /\ lastHandler.rc = "ERROR"
                  /\ IndexListed(allocation_count, fail_allocations)
           /\ lastHandler.fed = external_entity.bytes
           /\ lastHandler.final
           /\ lastHandler.rc = lastHandler.nested
           /\ lastHandler.rc \in {"OK", "ERROR"}
    /\ \A d \in 2..Top :
           /\ calls[d - 1].ppc = "handler"
           /\ calls[d].final
           /\ calls[d].input = external_entity.bytes
           /\ ~external_entity.null
           /\ parsers[d].life \in {"live", "null"}

\* C8 (amended): without a pending buffer the handler returns the failure
\* status and constructs nothing; with one it calls the nested constructor
\* once, feeds the result the pending buffer as one final chunk through
\* Parse and returns the status of that feed, OK or ERROR; a nested parser
\* that was constructed is freed exactly once before the handler returns,
\* and when the constructor's allocation is forced to fail there is no
\* nested parser and the handler returns ERROR; the handler never feeds,
\* resets or frees an outer parser.
C8_NestedParseWhenBuilt == []C8_State /\ [][OuterUntouched]_vars

\* A handler built a nested parser, fed it to OK and freed it.
C8_Witness ==
    /\ lastHandler.seen
    /\ lastHandler.pending
    /\ lastHandler.built = "live"
    /\ lastHandler.left = "freed"
    /\ lastHandler.rc = "OK"
    /\ lastHandler.fed # << >>

\* ---------------------------------------------------------------------- C9
C9_State ==
    /\ pc # "idle" =>
           /\ external_entity = recentExt
           /\ ~external_entity.null =>
                  external_entity_size = Len(external_entity.bytes)
    /\ pc \in {"setup", "create", "init"} => external_entity = Nullptr
    /\ (pc # "idle" /\ action.kind = "ExternalEntity") =>
           external_entity = PointerTo(action.data)

ExternalEntityStep ==
    pc = "loop" /\ action'.kind = "ExternalEntity" /\ action'.idx = i /\ i' = i + 1

C9_Step ==
    /\ ExternalEntityStep =>
           /\ external_entity' = PointerTo(action'.data)
           /\ <<parsers, calls, pc, allocation_count, fail_allocations,
                g_encoding, nCreated, nFreed>>' =
              <<parsers, calls, pc, allocation_count, fail_allocations,
                g_encoding, nCreated, nFreed>>
    /\ (pc # "idle" /\ ~ExternalEntityStep) =>
           <<external_entity, external_entity_size>>' =
           <<external_entity, external_entity_size>>
    /\ pc = "idle" => external_entity' = Nullptr

\* C9: in a test case the pending external-entity buffer is empty until the
\* first ExternalEntity action and afterwards holds the bytes of the latest
\* one; a test case starts by clearing it; an ExternalEntity action
\* overwrites it and touches nothing else; no other action and no callback
\* changes it.
C9_PendingBufferIsLatestAction == []C9_State /\ [][C9_Step]_vars

\* A second ExternalEntity action has replaced a different first buffer.
C9_Witness ==
    /\ pc = "loop"
    /\ action.kind = "ExternalEntity"
    /\ action.idx = 1
    /\ external_entity = PointerTo(<<"comment">>)
    /\ external_entity_size = 1

====
